---- MODULE Spec2Model ----
(***************************************************************************)
(* Model of the hierarchical task tree of src/task.py: the Stage           *)
(* constructors, Task.get_ancestors, Task.organize_hierarchy, Task.to_dict,*)
(* the task decorator and Task.run_sync with its nested helpers _run_sync, *)
(* find_context and update_stage; and of two classes of src/commons.py,    *)
(* BatchProcessingResult and Result with run_catching.                     *)
(*                                                                         *)
(* A behaviour builds one tree with the Task constructor (nested           *)
(* literals, so no parent link is set), optionally calls                   *)
(* organize_hierarchy on some nodes, and then performs one run_sync call   *)
(* on a node of the tree, one statement of its body per step.              *)
(*                                                                         *)
(* Values the code never inspects are opaque tokens: results are strings,  *)
(* errors are strings (instances of Exception, the class line 207         *)
(* catches), titles are tuples.  The on_stage_change observer returns      *)
(* normally from every call, except in the specification SpecLive.         *)
(***************************************************************************)
EXTENDS Integers, Sequences, FiniteSets, TLC

\* Number of Task objects of the tree.
MaxNodes == 4

Nodes == 1..MaxNodes

\* Task.parent when unset (None).
NoParent == 0

\* The node every shape hangs from: the outermost Task of a nested literal,
\* root_task of line 238 for the decorator.
root_task == 1

\* Python's None as a result, an error, a message and a context.
None == "None"
NoMessage == <<>>
NoContext == <<>>

\* The title the constructor call of node n was given.
TitleOf(n) == <<"Task", n>>

\* No to_dict call was made in this state.
NoView == [id |-> NoParent, title |-> <<>>,
           stage |-> [name |-> "NoView", message |-> NoMessage],
           children |-> <<>>]

\* Task.stage before any run (None).
NoStage == [name |-> "None", message |-> NoMessage, data |-> None, error |-> None]

\* Values an executable may return, and the values last_result may start with.
Results == {"a", "b"}
InitialResults == {None, "i"}

\* Exceptions an executable may raise.
Errors == {"boom"}

VARIABLES
    children,     \* Task.children: node -> sequence of nodes (<<>> for None or [])
    parent,       \* Task.parent: node -> node, or NoParent
    executable,   \* Task.executable is set (callable): node -> BOOLEAN
    context,      \* Task.context: node -> NoContext, a falsy value or a truthy value
    title,        \* Task.title: node -> title
    dependencies, \* the Tasks the decorator's dependency factories return, in order
    snapshots,    \* the on_stage_change passed to run_sync may call to_dict
    stage,        \* Task.stage: node -> Stage record, or NoStage
    pc,           \* position in run_sync
    self,         \* the node run_sync was invoked on
    observer,     \* on_stage_change was supplied
    tasks,        \* run_sync's local list tasks
    idx,          \* position of the for loop in tasks (1-based)
    last_result,  \* run_sync's last_result
    last_error,   \* run_sync's last_error
    caught,       \* the exception bound by "except Exception as e", line 207
    initial,      \* the last_result argument run_sync was called with
    calls,        \* history: the executable invocations, in order
    transitions,  \* history: the update_stage calls, in order
    notified,     \* history: the on_stage_change calls, in order
    exit,         \* how run_sync ended
    view,         \* what a to_dict call made in this state returned, or NoView
    status,           \* BatchProcessingResult.status
    end_time,         \* BatchProcessingResult.end_time
    total_items,      \* BatchProcessingResult.total_items
    processed_items,  \* BatchProcessingResult.processed_items
    successful_items, \* BatchProcessingResult.successful_items
    failed_items,     \* BatchProcessingResult.failed_items
    errors,           \* BatchProcessingResult.errors
    results,          \* the Result objects built so far: _value, _error, origin
    reply             \* the last call made on commons.py and how it ended

vars == <<children, parent, executable, context, title, dependencies,
          snapshots, stage, pc, self, observer, tasks, idx, last_result, last_error,
          caught, initial, calls,
          transitions, notified, exit, view, status, end_time, total_items,
          processed_items, successful_items, failed_items, errors, results, reply>>

batch == <<status, end_time, total_items, processed_items, successful_items,
           failed_items, errors>>
commons == <<batch, results, reply>>
built == <<children, parent, executable, context, title, dependencies, snapshots>>

\* What run_sync never assigns: the tree as built and the objects of
\* commons.py.
tree == <<built, commons>>
run == <<self, observer, tasks, idx, last_result, last_error, caught, initial>>
history == <<calls, transitions, notified, exit>>

-----------------------------------------------------------------------------
(* Stage constructors, src/task.py lines 36-71.                            *)

Message(text, ttl) == <<text, ttl>>

\* Stage.running(message)
StageRunning(message) ==
    [name |-> "running", message |-> message, data |-> None, error |-> None]

\* Stage.success(message, data)
StageSuccess(message, data) ==
    [name |-> "success", message |-> message, data |-> data, error |-> None]

\* A failed stage that loses the error.
StageFailedDropsError(message, error) ==
    [name |-> "failed",
     message |-> IF message # NoMessage THEN message ELSE <<"str", error>>,
     data |-> None, error |-> None]

\* Stage.failed(message, error): message if message else str(error)
StageFailed(message, error) ==
    [name |-> "failed",
     message |-> IF message # NoMessage THEN message ELSE <<"str", error>>,
     data |-> None, error |-> error]

\* A success_completed stage that loses the data.
StageSuccessCompletedDropsData(message, data) ==
    [name |-> "success_completed", message |-> message, data |-> None,
     error |-> None]

\* Stage.success_completed(message, data)
StageSuccessCompleted(message, data) ==
    [name |-> "success_completed", message |-> message, data |-> data,
     error |-> None]

\* Stage.failed_completed(message, error)
StageFailedCompleted(message, error) ==
    [name |-> "failed_completed", message |-> message, data |-> None,
     error |-> error]

\* Stage.is_completed
IsCompleted(stg) == stg.name \in {"success_completed", "failed_completed"}

-----------------------------------------------------------------------------
(* Trees built by the Task constructor.                                    *)

\* The children list of node p when node n > 1 is listed under up[n].
ChildrenOf(up, p) ==
    LET kids == {n \in Nodes \ {1} : up[n] = p}
        RECURSIVE Asc(_)
        Asc(S) == IF S = {} THEN <<>>
                  ELSE LET m == CHOOSE x \in S : \A y \in S : x <= y
                       IN <<m>> \o Asc(S \ {m})
    IN Asc(kids)

\* Every ordered tree shape on Nodes, its nodes numbered level by level: node
\* 1 is the root, each other node is listed under an earlier node, and later
\* nodes are listed under the same or a later node.
Shapes ==
    {[p \in Nodes |-> ChildrenOf(up, p)] :
        up \in {f \in [Nodes \ {1} -> Nodes] :
                   \A n \in Nodes \ {1} :
                      /\ f[n] < n
                      /\ \A m \in Nodes \ {1} : m < n => f[m] <= f[n]}}

\* Truthiness of a context value (line 181, "if task.context").
Truthy(c) == c # NoContext /\ c[1] = "ctx"

ContextsOf(n) == {NoContext, <<"falsy", n>>, <<"ctx", n>>}

-----------------------------------------------------------------------------
(* Task.get_ancestors, lines 106-118.                                      *)

RECURSIVE get_ancestors(_)
\* An enumeration that starts at the immediate parent.
GetAncestorsNearestFirst(t) ==
    IF parent[t] # NoParent
    THEN <<parent[t]>> \o get_ancestors(parent[t])
    ELSE <<>>

get_ancestors(t) ==
    IF parent[t] # NoParent
    THEN get_ancestors(parent[t]) \o <<parent[t]>>
    ELSE <<>>

(* Task.organize_hierarchy, lines 136-143: the parent links after the call *)
(* on node t, given the links par before it.                               *)
RECURSIVE organize_hierarchy(_, _)
RECURSIVE OrganizeChildren(_, _, _)
\* A pass that leaves a parent alone once it is set.
OrganizeChildrenKeepsParent(t, i, par) ==
    IF i > Len(children[t]) THEN par
    ELSE LET c == children[t][i]
             inner == organize_hierarchy(c, par)
         IN OrganizeChildren(t, i + 1,
                IF inner[c] = NoParent THEN [inner EXCEPT ![c] = t] ELSE inner)

OrganizeChildren(t, i, par) ==
    IF i > Len(children[t]) THEN par
    ELSE LET c == children[t][i]
             inner == organize_hierarchy(c, par)
         IN OrganizeChildren(t, i + 1, [inner EXCEPT ![c] = t])
organize_hierarchy(t, par) == OrganizeChildren(t, 1, par)

(* run_sync's collector _run_sync, lines 160-169.                          *)
RECURSIVE _run_sync(_)
RECURSIVE CollectChildren(_, _)
CollectChildren(t, i) ==
    IF i > Len(children[t]) THEN <<>>
    ELSE _run_sync(children[t][i]) \o CollectChildren(t, i + 1)
\* A collector that lists a node after its children.
RunSyncPostOrder(t) ==
    CollectChildren(t, 1) \o (IF executable[t] THEN <<t>> ELSE <<>>)
_run_sync(t) ==
    (IF executable[t] THEN <<t>> ELSE <<>>) \o CollectChildren(t, 1)

(* run_sync's find_context, lines 171-185.                                 *)
RECURSIVE find_context(_)
find_context(t) ==
    IF Truthy(context[t]) THEN context[t]
    ELSE IF parent[t] # NoParent THEN find_context(parent[t])
    ELSE NoContext

\* A copy that keeps the message.
AncestorCopyKeepsMessage(stg) == stg

(* The copy update_stage hands to an ancestor, lines 194-196: model_dump,  *)
(* message cleared, a new Stage built from the dict.                       *)
AncestorCopy(stg) ==
    [name |-> stg.name, message |-> NoMessage, data |-> stg.data,
     error |-> stg.error]

SeqToSet(s) == {s[i] : i \in 1..Len(s)}

\* Stage.to_dict, lines 26-27: name and message only.
StageToDict(stg) == [name |-> stg.name, message |-> stg.message]

\* The "stage" entry of a Task whose stage is None.
NoneStage == [name |-> None, message |-> NoMessage]

RECURSIVE to_dict(_, _)

\* A dict without the stage entries.
ToDictDropsStage(t, stages) ==
    [id |-> t, title |-> title[t], stage |-> NoneStage,
     children |-> [i \in 1..Len(children[t]) |-> to_dict(children[t][i], stages)]]

\* A dict that lists the children last first.
ToDictReversed(t, stages) ==
    [id |-> t, title |-> title[t],
     stage |-> IF stages[t] # NoStage THEN StageToDict(stages[t]) ELSE NoneStage,
     children |-> [i \in 1..Len(children[t]) |->
                      to_dict(children[t][Len(children[t]) + 1 - i], stages)]]

(* Task.to_dict, lines 120-134, read while the nodes' stages are `stages`. *)
(* The id of a node is its number; an empty "children" stands for None.    *)
to_dict(t, stages) ==
    [id |-> t, title |-> title[t],
     stage |-> IF stages[t] # NoStage THEN StageToDict(stages[t]) ELSE NoneStage,
     children |-> [i \in 1..Len(children[t]) |-> to_dict(children[t][i], stages)]]

(* The stages at the k-th on_stage_change call of update_stage(t, stg):    *)
(* the task's own stage is assigned first (line 191), then one ancestor    *)
(* before each call, root first (lines 193-197).                           *)
StagesAtCall(t, stg, k) ==
    [n \in Nodes |->
        IF \E i \in 1..k : i <= Len(get_ancestors(t)) /\ get_ancestors(t)[i] = n
        THEN AncestorCopy(stg)
        ELSE IF n = t THEN stg
        ELSE stage[n]]

(* What an on_stage_change that may call to_dict obtains during            *)
(* update_stage(t, stg): nothing, or the dict of the whole tree at one of  *)
(* the calls.                                                              *)
ObserverViews(t, stg) ==
    {NoView} \cup
    IF observer /\ snapshots
    THEN {to_dict(root_task, StagesAtCall(t, stg, k)) :
             k \in 1..(Len(get_ancestors(t)) + 1)}
    ELSE {}

\* An update that also hands the copy down to the children of the task.
UpdateStageStagesMarksChildren(t, stg) ==
    [n \in Nodes |->
        IF observer /\ n \in SeqToSet(get_ancestors(t)) THEN AncestorCopy(stg)
        ELSE IF n = t THEN stg
        ELSE IF n \in SeqToSet(children[t]) THEN AncestorCopy(stg)
        ELSE stage[n]]

(* update_stage, lines 187-198: the stages after the call.                 *)
UpdateStageStages(t, stg) ==
    [n \in Nodes |->
        IF observer /\ n \in SeqToSet(get_ancestors(t)) THEN AncestorCopy(stg)
        ELSE IF n = t THEN stg
        ELSE stage[n]]

(* update_stage: the on_stage_change calls it makes, in order.             *)
UpdateStageCalls(t, stg) ==
    IF observer
    THEN [i \in 1..Len(get_ancestors(t)) |->
             [stage |-> AncestorCopy(stg), task |-> get_ancestors(t)[i],
              update |-> Len(transitions) + 1]]
         \o <<[stage |-> stg, task |-> t, update |-> Len(transitions) + 1]>>
    ELSE <<>>

(* update_stage as a step of run_sync.                                     *)
update_stage(t, stg) ==
    /\ stage' = UpdateStageStages(t, stg)
    /\ notified' = notified \o UpdateStageCalls(t, stg)
    /\ transitions' = Append(transitions, [task |-> t, stage |-> stg])
    /\ view' \in ObserverViews(t, stg)

-----------------------------------------------------------------------------
(* src/commons.py: BatchProcessingResult, lines 24-134, and Result, lines  *)
(* 704-758, before any call on them.                                       *)

\* No function was passed to the call.
NoFunc == [kind |-> "none", value |-> None]

\* No call was made yet.
NoReply ==
    [call |-> "none", target |-> 0, func |-> NoFunc, kind |-> "none",
     value |-> None]

\* BatchProcessingResult.__init__, lines 61-81.
BatchNew ==
    /\ status = "Running"
    /\ end_time = None
    /\ total_items = 0
    /\ processed_items = 0
    /\ successful_items = 0
    /\ failed_items = 0
    /\ errors = <<>>

\* A new BatchProcessingResult and no Result.
NoCommons ==
    /\ BatchNew
    /\ results = <<>>
    /\ reply = NoReply

-----------------------------------------------------------------------------
(* Construction.                                                           *)

NotStarted ==
    /\ pc = "built"
    /\ dependencies = <<>>
    /\ snapshots = FALSE
    /\ NoCommons
    /\ self = NoParent
    /\ observer = FALSE
    /\ tasks = <<>>
    /\ idx = 0
    /\ last_result = None
    /\ last_error = None
    /\ caught = None
    /\ initial = None
    /\ calls = <<>>
    /\ transitions = <<>>
    /\ notified = <<>>
    /\ exit = [kind |-> "none", value |-> None]
    /\ view = NoView

\* Task.__init__, lines 83-104: nested literals, every context left None.
Init ==
    /\ children \in Shapes
    /\ parent = [n \in Nodes |-> NoParent]
    /\ executable \in [Nodes -> BOOLEAN]
    /\ context = [n \in Nodes |-> NoContext]
    /\ title = [n \in Nodes |-> TitleOf(n)]
    /\ stage = [n \in Nodes |-> NoStage]
    /\ NotStarted

\* Task.__init__ with any context argument on each node, every node carrying
\* an executable.
InitCtx ==
    /\ children \in Shapes
    /\ parent = [n \in Nodes |-> NoParent]
    /\ executable = [n \in Nodes |-> TRUE]
    /\ context \in {f \in [Nodes -> UNION {ContextsOf(n) : n \in Nodes}] :
                       \A n \in Nodes : f[n] \in ContextsOf(n)}
    /\ title = [n \in Nodes |-> TitleOf(n)]
    /\ stage = [n \in Nodes |-> NoStage]
    /\ NotStarted

\* The nodes below n in the children lists ch, n included.
RECURSIVE Below(_, _)
Below(ch, n) ==
    {n} \cup UNION {Below(ch, ch[n][i]) : i \in 1..Len(ch[n])}

\* The Tasks that can be passed as parent= when n is constructed under ch:
\* none, or a Task of another branch (the node that will hold n is built
\* after n).
EarlierParents(ch, n) ==
    {NoParent} \cup {m \in Nodes : m \notin Below(ch, n) /\ n \notin Below(ch, m)}

\* Task.__init__ with a parent argument: nested literals whose nodes were
\* given a parent of another branch, or none.
InitBuild ==
    /\ children \in Shapes
    /\ parent \in {f \in [Nodes -> Nodes \cup {NoParent}] :
                      \A n \in Nodes : f[n] \in EarlierParents(children, n)}
    /\ executable \in [Nodes -> BOOLEAN]
    /\ context = [n \in Nodes |-> NoContext]
    /\ title = [n \in Nodes |-> TitleOf(n)]
    /\ stage = [n \in Nodes |-> NoStage]
    /\ NotStarted

\* t.organize_hierarchy() before the run.
OrganizeHierarchy(t) ==
    /\ pc = "built"
    /\ parent' = organize_hierarchy(t, parent)
    /\ parent' # parent
    /\ view' = NoView
    /\ UNCHANGED <<children, executable, context, title, dependencies, snapshots, commons,
                   stage, pc, run, history>>

-----------------------------------------------------------------------------
(* The decorator task(title, context, dependencies), lines 233-248.        *)

\* The title arguments tried: one no other Task has, one a dependency has.
Titles == {TitleOf(0), TitleOf(2)}

\* The shapes the decorator can return: at least one dependency before the
\* last child, which is a leaf.
DecoShapes ==
    {sh \in Shapes : /\ Len(sh[root_task]) >= 2
                     /\ sh[sh[root_task][Len(sh[root_task])]] = <<>>}

\* The state before a decorated function is called: the Tasks its dependency
\* factories return exist, each with the parent its factory gave it; the
\* root and the Task of line 243 are still to be constructed.
InitDeco ==
    /\ \E sh \in DecoShapes :
          LET k     == Len(sh[root_task]) - 1
              roots == {sh[root_task][i] : i \in 1..k}
              made  == Nodes \ {root_task, sh[root_task][k + 1]}
          IN  /\ dependencies \in {d \in [1..k -> roots] :
                                      \A i, j \in 1..k : d[i] = d[j] => i = j}
              /\ children = [n \in Nodes |-> IF n = root_task THEN <<>> ELSE sh[n]]
              /\ parent \in
                    {f \in [Nodes -> Nodes \cup {NoParent}] :
                        \A n \in Nodes :
                            IF n \notin made THEN f[n] = NoParent
                            ELSE IF n \in roots
                                 THEN f[n] \in {NoParent} \cup (made \ Below(sh, n))
                                 ELSE f[n] \in {NoParent} \cup
                                        {m \in made : \E i \in 1..Len(sh[m]) : sh[m][i] = n}}
              /\ executable \in {f \in [Nodes -> BOOLEAN] :
                                    \A n \in Nodes \ made : ~f[n]}
    /\ context = [n \in Nodes |-> NoContext]
    /\ title = [n \in Nodes |-> TitleOf(n)]
    /\ stage = [n \in Nodes |-> NoStage]
    /\ pc = "deps"
    /\ snapshots = FALSE
    /\ NoCommons
    /\ self = NoParent
    /\ observer = FALSE
    /\ tasks = <<>>
    /\ idx = 0
    /\ last_result = None
    /\ last_error = None
    /\ caught = None
    /\ initial = None
    /\ calls = <<>>
    /\ transitions = <<>>
    /\ notified = <<>>
    /\ exit = [kind |-> "none", value |-> None]
    /\ view = NoView

\* The Task constructed on line 243: the one node that is neither the root
\* nor part of what a factory returned.
Primary ==
    CHOOSE n \in Nodes \ {root_task} :
        \A i \in 1..Len(dependencies) : n \notin Below(children, dependencies[i])

DecoratedChildrenPrimaryFirst(deps, prim) == <<prim>> \o deps

\* Lines 239, 243, 244: the factories' Tasks, then the new Task.
DecoratedChildren(deps, prim) == deps \o <<prim>>

DecoratedParentsKeepsFactoryParent(deps, prim, par) ==
    [n \in Nodes |->
        IF n = prim \/ (par[n] = NoParent /\ \E i \in 1..Len(deps) : deps[i] = n)
        THEN root_task ELSE par[n]]

\* Lines 240-241 and parent=root_task of line 243.
DecoratedParents(deps, prim, par) ==
    [n \in Nodes |->
        IF n = prim \/ (\E i \in 1..Len(deps) : deps[i] = n)
        THEN root_task ELSE par[n]]

\* One call of the decorated function, lines 237-244.
Decorate(ttl, ctx) ==
    /\ pc = "deps"
    /\ dependencies # <<>>
    /\ title' = [title EXCEPT ![root_task] = ttl, ![Primary] = ttl]
    /\ executable' = [executable EXCEPT ![root_task] = FALSE, ![Primary] = TRUE]
    /\ context' = [context EXCEPT ![root_task] = ctx, ![Primary] = NoContext]
    /\ children' = [children EXCEPT
                       ![root_task] = DecoratedChildren(dependencies, Primary),
                       ![Primary] = <<>>]
    /\ parent' = [DecoratedParents(dependencies, Primary, parent)
                     EXCEPT ![root_task] = NoParent]
    /\ pc' = "built"
    /\ view' = NoView
    /\ UNCHANGED <<dependencies, snapshots, commons, stage, run, history>>

\* The state before a function decorated without dependencies (None or an
\* empty list) is called: no Task exists yet.
InitAlone ==
    /\ dependencies = <<>>
    /\ children = [n \in Nodes |-> <<>>]
    /\ parent = [n \in Nodes |-> NoParent]
    /\ executable = [n \in Nodes |-> FALSE]
    /\ context = [n \in Nodes |-> NoContext]
    /\ title = [n \in Nodes |-> TitleOf(n)]
    /\ stage = [n \in Nodes |-> NoStage]
    /\ pc = "deps"
    /\ snapshots = FALSE
    /\ NoCommons
    /\ self = NoParent
    /\ observer = FALSE
    /\ tasks = <<>>
    /\ idx = 0
    /\ last_result = None
    /\ last_error = None
    /\ caught = None
    /\ initial = None
    /\ calls = <<>>
    /\ transitions = <<>>
    /\ notified = <<>>
    /\ exit = [kind |-> "none", value |-> None]
    /\ view = NoView

\* One call of a function decorated without dependencies, lines 245-246:
\* Task(title, wrapped, context).
DecorateAlone(ttl, ctx) ==
    /\ pc = "deps"
    /\ dependencies = <<>>
    /\ title' = [title EXCEPT ![root_task] = ttl]
    /\ executable' = [executable EXCEPT ![root_task] = TRUE]
    /\ context' = [context EXCEPT ![root_task] = ctx]
    /\ pc' = "built"
    /\ view' = NoView
    /\ UNCHANGED <<children, parent, dependencies, snapshots, commons, stage, run,
                   history>>

-----------------------------------------------------------------------------
(* run_sync, lines 146-224.                                                *)

\* The task the for loop is at.
Current == tasks[idx]

\* Entry: lines 160-169 and 200.
RunStart(s, obs, init) ==
    /\ pc = "built"
    /\ self' = s
    /\ observer' = obs
    /\ initial' = init
    /\ last_result' = init
    /\ last_error' = None
    /\ caught' = None
    /\ tasks' = _run_sync(s)
    /\ idx' = 1
    /\ pc' = "loop"
    /\ view' = NoView
    /\ UNCHANGED <<tree, stage, history>>

\* Line 204.
MarkRunning ==
    /\ pc = "loop"
    /\ idx <= Len(tasks)
    /\ update_stage(Current, StageRunning(Message("Running task", title[Current])))
    /\ pc' = "invoke"
    /\ UNCHANGED <<tree, run, calls, exit>>

\* A call whose return value is dropped instead of becoming last_result.
ExecReturnDropsResult(v) ==
    /\ pc = "invoke"
    /\ calls' = Append(calls, [task |-> Current, context |-> find_context(Current),
                               previous |-> last_result, outcome |-> "return",
                               value |-> v])
    /\ pc' = "returned"
    /\ view' = NoView
    /\ UNCHANGED <<tree, stage, run, transitions, notified, exit>>

\* Line 205, the executable returns v.
ExecReturn(v) ==
    /\ pc = "invoke"
    /\ calls' = Append(calls, [task |-> Current, context |-> find_context(Current),
                               previous |-> last_result, outcome |-> "return",
                               value |-> v])
    /\ last_result' = v
    /\ pc' = "returned"
    /\ view' = NoView
    /\ UNCHANGED <<tree, stage, self, observer, tasks, idx, last_error, caught, initial,
                   transitions, notified, exit>>

\* Line 205, the executable raises e.
ExecRaise(e) ==
    /\ pc = "invoke"
    /\ calls' = Append(calls, [task |-> Current, context |-> find_context(Current),
                               previous |-> last_result, outcome |-> "raise",
                               value |-> e])
    /\ caught' = e
    /\ pc' = "except"
    /\ view' = NoView
    /\ UNCHANGED <<tree, stage, self, observer, tasks, idx, last_result, last_error,
                   initial, transitions, notified, exit>>

\* A loop that goes to the next task without the update of line 206.
MarkSuccessSkipped ==
    /\ pc = "returned"
    /\ idx' = idx + 1
    /\ pc' = "loop"
    /\ view' = NoView
    /\ UNCHANGED <<tree, stage, self, observer, tasks, last_result, last_error, caught,
                   initial, history>>

\* Line 206, then the next iteration.
MarkSuccess ==
    /\ pc = "returned"
    /\ update_stage(Current, StageSuccess(Message("Task succeeded", title[Current]), None))
    /\ idx' = idx + 1
    /\ pc' = "loop"
    /\ UNCHANGED <<tree, self, observer, tasks, last_result, last_error, caught, initial,
                   calls, exit>>

\* A handler that marks the task failed and goes on with the next task.
MarkFailedContinues ==
    /\ pc = "except"
    /\ LET e == caught
       IN /\ update_stage(Current, StageFailed(Message("Task failed", title[Current]), e))
          /\ last_error' = e
    /\ idx' = idx + 1
    /\ pc' = "loop"
    /\ UNCHANGED <<tree, self, observer, tasks, last_result, caught, initial, calls,
                   exit>>

\* Lines 207-212: the handler marks the task failed and re-raises.
MarkFailed ==
    /\ pc = "except"
    /\ LET e == caught
       IN /\ update_stage(Current, StageFailed(Message("Task failed", title[Current]), e))
          /\ last_error' = e
          /\ exit' = [kind |-> "raising", value |-> e]
    /\ pc' = "finally"
    /\ UNCHANGED <<tree, self, observer, tasks, idx, last_result, caught, initial,
                   calls>>

\* A finally block that never looks at last_error.
FinalStageIgnoresError ==
    StageSuccessCompleted(Message("Task completed", title[self]), last_result)

\* The stage the finally block builds, lines 214-221.
FinalStage ==
    IF last_error # None
    THEN StageFailedCompleted(Message("Task failed", title[self]), last_error)
    ELSE StageSuccessCompleted(Message("Task completed", title[self]), last_result)

\* A completion step that is skipped while an exception is in flight.
FinallyOnlyOnSuccess ==
    /\ \/ pc = "loop" /\ idx > Len(tasks)
       \/ pc = "finally"
    /\ IF exit.kind = "raising"
       THEN view' = NoView /\ UNCHANGED <<stage, notified, transitions>>
       ELSE update_stage(self, FinalStage)
    /\ pc' = "exiting"
    /\ UNCHANGED <<tree, run, calls, exit>>

\* A finally block that is entered only when the loop ran to its end.
FinallyWaitsForFullWalk ==
    /\ pc = "loop" /\ idx > Len(tasks)
    /\ update_stage(self, FinalStage)
    /\ pc' = "exiting"
    /\ UNCHANGED <<tree, run, calls, exit>>

\* A finally block that completes the task the loop stopped at.
FinallyOnStoppedTask ==
    /\ \/ pc = "loop" /\ idx > Len(tasks)
       \/ pc = "finally"
    /\ update_stage(IF idx <= Len(tasks) THEN Current ELSE self, FinalStage)
    /\ pc' = "exiting"
    /\ UNCHANGED <<tree, run, calls, exit>>

\* Lines 213-222: the finally block, entered from the end of the loop or with
\* the re-raised exception in flight.
Finally ==
    /\ \/ pc = "loop" /\ idx > Len(tasks)
       \/ pc = "finally"
    /\ update_stage(self, FinalStage)
    /\ pc' = "exiting"
    /\ UNCHANGED <<tree, run, calls, exit>>

\* Line 224: return last_result.
Return ==
    /\ pc = "exiting"
    /\ exit.kind = "none"
    /\ exit' = [kind |-> "returned", value |-> last_result]
    /\ pc' = "done"
    /\ view' = NoView
    /\ UNCHANGED <<tree, stage, run, calls, transitions, notified>>

\* The exception of line 212 leaves run_sync once the finally block is over.
Propagate ==
    /\ pc = "exiting"
    /\ exit.kind = "raising"
    /\ exit' = [kind |-> "raised", value |-> exit.value]
    /\ pc' = "done"
    /\ view' = NoView
    /\ UNCHANGED <<tree, stage, run, calls, transitions, notified>>

(* An on_stage_change that raises.                                         *)

\* What an on_stage_change may raise.
ObserverErrors == {"oops"}

(* update_stage(t, stg), lines 187-198, when the k-th on_stage_change call *)
(* it makes raises: the stages are those assigned before that call, and    *)
(* the later ancestors are neither updated nor reported.                   *)
UpdateStageRaises(t, stg, k) ==
    /\ observer
    /\ k \in 1..(Len(get_ancestors(t)) + 1)
    /\ stage' = StagesAtCall(t, stg, k)
    /\ notified' = notified \o SubSeq(UpdateStageCalls(t, stg), 1, k)
    /\ transitions' = Append(transitions, [task |-> t, stage |-> stg])
    /\ view' = NoView

\* Line 204 raises inside the try: the handler of line 207 catches it.
ObserverRaisesOnRunning(k, e) ==
    /\ pc = "loop"
    /\ idx <= Len(tasks)
    /\ UpdateStageRaises(Current, StageRunning(Message("Running task", title[Current])), k)
    /\ caught' = e
    /\ pc' = "except"
    /\ UNCHANGED <<tree, self, observer, tasks, idx, last_result, last_error, initial,
                   calls, exit>>

\* Line 206 raises inside the try, after last_result was assigned.
ObserverRaisesOnSuccess(k, e) ==
    /\ pc = "returned"
    /\ UpdateStageRaises(Current,
                         StageSuccess(Message("Task succeeded", title[Current]), None), k)
    /\ caught' = e
    /\ pc' = "except"
    /\ UNCHANGED <<tree, self, observer, tasks, idx, last_result, last_error, initial,
                   calls, exit>>

\* Line 209 raises inside the handler: lines 210-212 are not reached, so
\* last_error keeps its value and the new exception goes to the finally
\* block.
ObserverRaisesOnFailed(k, e) ==
    /\ pc = "except"
    /\ UpdateStageRaises(Current,
                         StageFailed(Message("Task failed", title[Current]), caught), k)
    /\ exit' = [kind |-> "raising", value |-> e]
    /\ pc' = "finally"
    /\ UNCHANGED <<tree, run, calls>>

\* Line 222 raises inside the finally block: the new exception replaces the
\* one in flight, if any.
ObserverRaisesOnFinal(k, e) ==
    /\ \/ pc = "loop" /\ idx > Len(tasks)
       \/ pc = "finally"
    /\ UpdateStageRaises(self, FinalStage, k)
    /\ exit' = [kind |-> "raising", value |-> e]
    /\ pc' = "exiting"
    /\ UNCHANGED <<tree, run, calls>>

\* t.to_dict(), lines 120-134, called between two steps of the program.
ToDict(t) ==
    /\ view' = to_dict(t, stage)
    /\ UNCHANGED <<tree, stage, pc, run, history>>

-----------------------------------------------------------------------------

Next ==
    \/ \E t \in Nodes : OrganizeHierarchy(t)
    \/ \E s \in Nodes, obs \in BOOLEAN, init \in InitialResults : RunStart(s, obs, init)
    \/ MarkRunning
    \/ \E v \in Results : ExecReturn(v)
    \/ \E e \in Errors : ExecRaise(e)
    \/ MarkSuccess
    \/ MarkFailed
    \/ Finally
    \/ Return
    \/ Propagate

Spec == Init /\ [][Next]_vars

\* Runs over trees with contexts, whose executables all return.
NextCtx ==
    \/ \E t \in Nodes : OrganizeHierarchy(t)
    \/ \E s \in Nodes, obs \in BOOLEAN : RunStart(s, obs, None)
    \/ MarkRunning
    \/ ExecReturn("a")
    \/ MarkSuccess
    \/ Finally
    \/ Return

SpecCtx == InitCtx /\ [][NextCtx]_vars

\* Construction alone: organize_hierarchy calls on trees with parents set
\* earlier.
NextBuild == \E t \in Nodes : OrganizeHierarchy(t)

SpecBuild == InitBuild /\ [][NextBuild]_vars

\* Task.__init__ as in Init; the observer given to run_sync may call to_dict.
InitView ==
    /\ children \in Shapes
    /\ parent = [n \in Nodes |-> NoParent]
    /\ executable \in [Nodes -> BOOLEAN]
    /\ context = [n \in Nodes |-> NoContext]
    /\ title = [n \in Nodes |-> TitleOf(n)]
    /\ stage = [n \in Nodes |-> NoStage]
    /\ dependencies = <<>>
    /\ snapshots = TRUE
    /\ NoCommons
    /\ pc = "built"
    /\ self = NoParent
    /\ observer = FALSE
    /\ tasks = <<>>
    /\ idx = 0
    /\ last_result = None
    /\ last_error = None
    /\ caught = None
    /\ initial = None
    /\ calls = <<>>
    /\ transitions = <<>>
    /\ notified = <<>>
    /\ exit = [kind |-> "none", value |-> None]
    /\ view = NoView

\* Runs during which to_dict is called on the whole tree: between steps, and
\* by the observer.
NextView ==
    \/ OrganizeHierarchy(root_task)
    \/ \E s \in Nodes, obs \in BOOLEAN : RunStart(s, obs, None)
    \/ MarkRunning
    \/ ExecReturn("a")
    \/ \E e \in Errors : ExecRaise(e)
    \/ MarkSuccess
    \/ MarkFailed
    \/ Finally
    \/ Return
    \/ Propagate
    \/ ToDict(root_task)

SpecView == InitView /\ [][NextView]_vars

\* One step of a run_sync call under way; the executables and the observer
\* return or raise.
RunStep ==
    \/ MarkRunning
    \/ ExecReturn("a")
    \/ \E e \in Errors : ExecRaise(e)
    \/ MarkSuccess
    \/ MarkFailed
    \/ Finally
    \/ Return
    \/ Propagate
    \/ \E k \in Nodes, e \in ObserverErrors : ObserverRaisesOnRunning(k, e)
    \/ \E k \in Nodes, e \in ObserverErrors : ObserverRaisesOnSuccess(k, e)
    \/ \E k \in Nodes, e \in ObserverErrors : ObserverRaisesOnFailed(k, e)
    \/ \E k \in Nodes, e \in ObserverErrors : ObserverRaisesOnFinal(k, e)

NextLive ==
    \/ OrganizeHierarchy(root_task)
    \/ \E s \in Nodes, obs \in BOOLEAN : RunStart(s, obs, None)
    \/ RunStep

\* Runs in which every call made returns or raises in finite time, so that
\* a run under way always takes its next step.
SpecLive == Init /\ [][NextLive]_vars /\ WF_vars(RunStep)

\* Runs told apart by their stages only: one return value, one error, no
\* initial result.
NextStages ==
    \/ \E t \in Nodes : OrganizeHierarchy(t)
    \/ \E s \in Nodes, obs \in BOOLEAN : RunStart(s, obs, None)
    \/ MarkRunning
    \/ ExecReturn("a")
    \/ \E e \in Errors : ExecRaise(e)
    \/ MarkSuccess
    \/ MarkFailed
    \/ Finally
    \/ Return
    \/ Propagate

SpecStages == Init /\ [][NextStages]_vars

\* A decorated function is called and the tree it returns is run.
NextDeco ==
    \/ \E ttl \in Titles, ctx \in ContextsOf(root_task) : Decorate(ttl, ctx)
    \/ \E obs \in BOOLEAN, init \in InitialResults : RunStart(root_task, obs, init)
    \/ MarkRunning
    \/ \E v \in Results : ExecReturn(v)
    \/ \E e \in Errors : ExecRaise(e)
    \/ MarkSuccess
    \/ MarkFailed
    \/ Finally
    \/ Return
    \/ Propagate

SpecDeco == InitDeco /\ [][NextDeco]_vars

\* A function decorated with or without dependencies is called and the
\* Task it returns is run.
NextWrap ==
    \/ \E ttl \in Titles, ctx \in ContextsOf(root_task) : Decorate(ttl, ctx)
    \/ \E ttl \in Titles, ctx \in ContextsOf(root_task) : DecorateAlone(ttl, ctx)
    \/ \E obs \in BOOLEAN, init \in InitialResults : RunStart(root_task, obs, init)
    \/ MarkRunning
    \/ \E v \in Results : ExecReturn(v)
    \/ \E e \in Errors : ExecRaise(e)
    \/ MarkSuccess
    \/ MarkFailed
    \/ Finally
    \/ Return
    \/ Propagate

SpecWrap == (InitDeco \/ InitAlone) /\ [][NextWrap]_vars

-----------------------------------------------------------------------------
(* src/commons.py, BatchProcessingResult.  One object; task_id,            *)
(* start_time and additional_info, which no method below reads or writes,  *)
(* and the "time" entry of an error, are left out.  A time is "t" when the *)
(* caller gave it and "now" when the code read the clock.                  *)

\* What no function of src/commons.py touches.
engine == <<built, stage, pc, run, history, view>>

\* Bounds of the exploration: items processed, errors recorded.
MaxItems == 3
MaxErrors == 3

EndTimes == {"t"}
Thresholds == {0, 2}
ErrorTypes == {"E"}
ErrorMessages == {<<"m">>}
Reasons == {<<"r">>}

\* Line 97, the f-string: the text followed by the threshold.
ThresholdMessage(fail_threshold) ==
    <<"Failed items exceed the threshold of ", fail_threshold>>

\* Line 95: total_items // 2.
DefaultThresholdRoundsUp(total) == (total + 1) \div 2
DefaultThreshold(total) == total \div 2

\* Lines 130-134: the list after errors.append.
WithError(error_type, error_message) ==
    Append(errors, [type |-> error_type, message |-> error_message])

\* add_error, lines 126-134.
add_error(error_type, error_message) ==
    /\ Len(errors) < MaxErrors
    /\ errors' = WithError(error_type, error_message)
    /\ UNCHANGED <<status, end_time, total_items, processed_items,
                   successful_items, failed_items, engine, results, reply>>

\* add_successful_item, lines 111-116.
add_successful_item ==
    /\ processed_items < MaxItems
    /\ processed_items' = processed_items + 1
    /\ successful_items' = successful_items + 1
    /\ UNCHANGED <<status, end_time, total_items, failed_items, errors, engine,
                   results, reply>>

\* add_failed_item, lines 118-124.
AddFailedItemWithoutError(error_message) ==
    /\ processed_items < MaxItems
    /\ Len(errors) < MaxErrors
    /\ processed_items' = processed_items + 1
    /\ failed_items' = failed_items + 1
    /\ UNCHANGED <<status, end_time, total_items, successful_items, errors,
                   engine, results, reply>>
add_failed_item(error_message) ==
    /\ processed_items < MaxItems
    /\ Len(errors) < MaxErrors
    /\ processed_items' = processed_items + 1
    /\ failed_items' = failed_items + 1
    /\ errors' = WithError("ProcessingError", error_message)
    /\ UNCHANGED <<status, end_time, total_items, successful_items, engine,
                   results, reply>>

\* set_total_items, lines 136-143.
set_total_items(total) ==
    /\ total_items' = total
    /\ UNCHANGED <<status, end_time, processed_items, successful_items,
                   failed_items, errors, engine, results, reply>>

\* fail, lines 99-109.
fail(at, reason) ==
    /\ Len(errors) < MaxErrors
    /\ end_time' = at
    /\ status' = "Failed"
    /\ errors' = WithError("Task Failure", reason)
    /\ UNCHANGED <<total_items, processed_items, successful_items, failed_items,
                   engine, results, reply>>

\* complete, lines 83-97; given says whether fail_threshold was passed (a
\* passed 0 is kept: the test of line 94 is "is None").  A datetime is
\* always truthy, so line 91 reads the clock only for None.  The call of
\* fail overwrites end_time with the same value and status with "Failed".
complete(at, given, th) ==
    LET end == IF at # None THEN at ELSE "now"
        fail_threshold == IF given THEN th ELSE DefaultThreshold(total_items)
    IN  IF failed_items > fail_threshold
        THEN fail(end, ThresholdMessage(fail_threshold))
        ELSE /\ end_time' = end
             /\ status' = "Completed"
             /\ UNCHANGED <<total_items, processed_items, successful_items,
                            failed_items, errors, engine, results, reply>>

\* Any sequence of calls on one new BatchProcessingResult.
NextBatch ==
    \/ add_successful_item
    \/ \E m \in ErrorMessages : add_failed_item(m)
    \/ \E ty \in ErrorTypes, m \in ErrorMessages : add_error(ty, m)
    \/ \E total \in 0..MaxItems : set_total_items(total)
    \/ \E at \in EndTimes \cup {None}, given \in BOOLEAN, th \in Thresholds :
          complete(at, given, th)
    \/ \E at \in EndTimes, r \in Reasons : fail(at, r)

SpecBatch == InitAlone /\ [][NextBatch]_vars

-----------------------------------------------------------------------------
(* src/commons.py, Result and run_catching.  results lists the Result      *)
(* objects in the order they were built, each with what built it and, for  *)
(* run_catching, the function it was given; a function is what it does     *)
(* when called: return a value or raise.  reply is the last call, the      *)
(* Result it was made on or returned (its place in results), and how the   *)
(* call ended.                                                             *)

\* Bound of the exploration: Result objects built.
MaxResults == 2

Values == {"a"}

\* Raised objects that are not instances of Exception (SystemExit,
\* KeyboardInterrupt); those of Errors are.
Interrupts == {"exit"}

Funcs ==
    [kind : {"return"}, value : Values \cup {None}]
        \cup [kind : {"raise"}, value : Errors \cup Interrupts]

\* Result.__init__, lines 705-714.
Result(value, error) == [_value |-> value, _error |-> error]

\* The properties is_success, lines 716-721, and is_failure, lines 723-728.
is_success(r) == r._error = None
is_failure(r) == r._error # None

Returned(call, i, f, v) ==
    [call |-> call, target |-> i, func |-> f, kind |-> "returned", value |-> v]
Threw(call, i, f, e) ==
    [call |-> call, target |-> i, func |-> f, kind |-> "raised", value |-> e]

\* Result(value, error) called by the program, with any combination of
\* arguments.
Construct(value, error) ==
    /\ Len(results) < MaxResults
    /\ results' = Append(results, [object |-> Result(value, error),
                                   origin |-> "Result", func |-> NoFunc])
    /\ reply' = Returned("Result", Len(results) + 1, NoFunc, None)
    /\ UNCHANGED <<engine, batch>>

\* run_catching, lines 761-774: "except Exception" catches the objects of
\* Errors and lets those of Interrupts through.
RunCatchingWithoutExcept(f) ==
    /\ Len(results) < MaxResults
    /\ IF f.kind = "return"
       THEN /\ results' = Append(results, [object |-> Result(f.value, None),
                                           origin |-> "run_catching", func |-> f])
            /\ reply' = Returned("run_catching", Len(results) + 1, f, None)
       ELSE /\ results' = results
            /\ reply' = Threw("run_catching", 0, f, f.value)
    /\ UNCHANGED <<engine, batch>>
run_catching(f) ==
    /\ Len(results) < MaxResults
    /\ IF f.kind = "return"
       THEN /\ results' = Append(results, [object |-> Result(f.value, None),
                                           origin |-> "run_catching", func |-> f])
            /\ reply' = Returned("run_catching", Len(results) + 1, f, None)
       ELSE IF f.value \in Errors
       THEN /\ results' = Append(results, [object |-> Result(None, f.value),
                                           origin |-> "run_catching", func |-> f])
            /\ reply' = Returned("run_catching", Len(results) + 1, f, None)
       ELSE /\ results' = results
            /\ reply' = Threw("run_catching", 0, f, f.value)
    /\ UNCHANGED <<engine, batch>>

\* get_or_none, lines 730-734, on the i-th Result.
get_or_none(i) ==
    /\ reply' = Returned("get_or_none", i, NoFunc, results[i].object._value)
    /\ UNCHANGED <<engine, batch, results>>

\* get_or_throw, lines 736-742, on the i-th Result.
get_or_throw(i) ==
    LET r == results[i].object
    IN  /\ reply' = IF is_failure(r)
                    THEN Threw("get_or_throw", i, NoFunc, r._error)
                    ELSE Returned("get_or_throw", i, NoFunc, r._value)
        /\ UNCHANGED <<engine, batch, results>>

NextResult ==
    \/ \E v \in Values \cup {None}, e \in Errors \cup {None} : Construct(v, e)
    \/ \E f \in Funcs : run_catching(f)
    \/ \E i \in 1..Len(results) : get_or_none(i)
    \/ \E i \in 1..Len(results) : get_or_throw(i)

SpecResult == InitAlone /\ [][NextResult]_vars

-----------------------------------------------------------------------------
(* Vocabulary of the properties, defined from the tree and the histories   *)
(* alone.                                                                  *)

\* The nodes reachable from t through children lists, t included.
RECURSIVE Close(_)
Close(S) ==
    LET more == S \cup UNION {SeqToSet(children[n]) : n \in S}
    IN IF more = S THEN S ELSE Close(more)
Reach(t) == Close({t})

\* a comes before b in depth-first pre-order, given the function R from a
\* node to the nodes reachable from it: a is above b, or at some node the
\* child leading to a is listed before the child leading to b.
PreOrderBefore(R, a, b) ==
    \/ a # b /\ b \in R[a]
    \/ \E p \in Nodes : \E i, j \in 1..Len(children[p]) :
          /\ i < j
          /\ a \in R[children[p][i]]
          /\ b \in R[children[p][j]]

Raised == \E i \in 1..Len(calls) : calls[i].outcome = "raise"
CallsOf(n) == {i \in 1..Len(calls) : calls[i].task = n}
Exited == pc = "done"

\* C1: in a run in which no executable raises, every invocation is of an
\* executable-bearing node reachable from the root, no node is invoked twice,
\* invocations follow depth-first pre-order, and when run_sync has exited
\* every executable-bearing reachable node was invoked exactly once.
C1_PreOrderExactlyOnce ==
    (~Raised /\ pc # "built") =>
        LET R == [n \in Nodes |-> Reach(n)]
        IN /\ \A i \in 1..Len(calls) :
                 calls[i].task \in R[self] /\ executable[calls[i].task]
           /\ \A i, j \in 1..Len(calls) :
                 i < j => PreOrderBefore(R, calls[i].task, calls[j].task)
           /\ \A n \in Nodes : Cardinality(CallsOf(n)) <= 1
           /\ Exited =>
                 \A n \in R[self] : executable[n] => Cardinality(CallsOf(n)) = 1

\* C1 witness: a finished run without failure over root [A [C], B] with a
\* grouping root, where pre-order (A, C, B) differs from level order.
C1_Witness ==
    /\ Exited /\ ~Raised
    /\ self = 1 /\ ~executable[1]
    /\ children[1] = <<2, 3>> /\ children[2] = <<4>>
    /\ Len(calls) = 3
    /\ calls[1].task = 2 /\ calls[2].task = 4 /\ calls[3].task = 3

\* C2: once an executable has raised, nothing is invoked any more: a raise
\* is only ever the last entry of the invocation history, and the node that
\* raised was invoked once.
C2_NoCallAfterFailure ==
    \A i \in 1..Len(calls) :
        calls[i].outcome = "raise" =>
            /\ i = Len(calls)
            /\ CallsOf(calls[i].task) = {i}

\* C2 witness: run_sync has exited after the second of three collected
\* executables raised.
C2_Witness ==
    /\ Exited
    /\ Len(tasks) = 3
    /\ Len(calls) = 2
    /\ calls[2].outcome = "raise"

\* C3: the first executable receives the initial last_result, every later
\* one the value returned by the invocation just before it.
C3_ResultThreading ==
    \A i \in 1..Len(calls) :
        calls[i].previous = IF i = 1 THEN initial ELSE calls[i - 1].value

\* C3 witness: three invocations, started from a non-None last_result, the
\* first two returning different values.
C3_Witness ==
    /\ Len(calls) = 3
    /\ initial = "i"
    /\ calls[1].value = "a" /\ calls[2].value = "b"
    /\ calls[3].previous = "b"

\* C4: when an executable has raised and run_sync has exited, it exited by
\* raising that same exception, returning no value, and from the moment the
\* exception leaves the finally block the root is in failed_completed.
C4_FailurePropagates ==
    \A i \in 1..Len(calls) :
        calls[i].outcome = "raise" =>
            /\ Exited => exit = [kind |-> "raised", value |-> calls[i].value]
            /\ exit.kind # "returned"
            /\ pc \in {"exiting", "done"} => stage[self].name = "failed_completed"

\* C4 witness: the exception of the second executable has left run_sync.
C4_Witness ==
    /\ Exited
    /\ Len(calls) = 2
    /\ calls[2].outcome = "raise" /\ calls[2].value = "boom"
    /\ exit.kind = "raised"

\* C5 as stated: after a failure at node k, node k is in stage failed with
\* the error and the root is in failed_completed with the same error.
C5_FailedNodeKeepsFailed ==
    Exited =>
        \A i \in 1..Len(calls) :
            calls[i].outcome = "raise" =>
                /\ stage[calls[i].task].name = "failed"
                /\ stage[calls[i].task].error = calls[i].value
                /\ stage[self].name = "failed_completed"
                /\ stage[self].error = calls[i].value

\* C5 amended: after a failure at node k the root is in failed_completed
\* with the raised error, and node k, when it is not the root itself, is in
\* stage failed with the raised error.
C5_FailedStages ==
    Exited =>
        \A i \in 1..Len(calls) :
            calls[i].outcome = "raise" =>
                /\ calls[i].task # self =>
                      /\ stage[calls[i].task].name = "failed"
                      /\ stage[calls[i].task].error = calls[i].value
                /\ stage[self].name = "failed_completed"
                /\ stage[self].error = calls[i].value

\* C5 witness: an observed run over an organized tree has exited after node
\* 4, two levels below the root, raised.
C5_Witness ==
    /\ Exited /\ observer
    /\ self = 1
    /\ Len(calls) >= 2
    /\ calls[Len(calls)].outcome = "raise"
    /\ calls[Len(calls)].task = 4
    /\ parent[4] = 2 /\ parent[2] = 1

\* The value run_sync holds after the last invocation.
FinalResult == IF calls = <<>> THEN initial ELSE calls[Len(calls)].value

\* C6: when no executable raised and run_sync has exited, it returned the
\* value of the last invocation (the initial last_result when nothing was
\* invoked), and the root is in success_completed with that value as data.
C6_ReturnsLastResult ==
    (Exited /\ ~Raised) =>
        /\ exit = [kind |-> "returned", value |-> FinalResult]
        /\ stage[self].name = "success_completed"
        /\ stage[self].data = FinalResult

\* C6 witness: run_sync returned "b" after three invocations.
C6_Witness ==
    /\ Exited
    /\ Len(calls) = 3
    /\ exit = [kind |-> "returned", value |-> "b"]
    /\ calls[2].value = "a"

\* C7 as stated: after a run without failure every executed node other than
\* the root is in stage success whose data is the value its own executable
\* returned.
C7_SuccessCarriesOwnResult ==
    (Exited /\ ~Raised) =>
        \A i \in 1..Len(calls) :
            calls[i].task # self =>
                /\ stage[calls[i].task].name = "success"
                /\ stage[calls[i].task].data = calls[i].value

\* The update_stage calls that put a completion stage on the root.
Completions ==
    {u \in 1..Len(transitions) :
        transitions[u].task = self /\ IsCompleted(transitions[u].stage)}

\* C8: a completion stage is only ever set on the root, by the last
\* update_stage call of the run and at most once; when run_sync leaves its
\* finally block, normally or with an exception in flight, it has been set
\* exactly once and the root holds it.
C8_CompletionOnceAndLast ==
    /\ \A u \in 1..Len(transitions) :
          IsCompleted(transitions[u].stage) =>
              transitions[u].task = self /\ u = Len(transitions)
    /\ pc \in {"exiting", "done"} =>
          /\ Completions = {Len(transitions)}
          /\ stage[self] = transitions[Len(transitions)].stage
    /\ pc \notin {"exiting", "done"} => Completions = {}

\* C8 witness: an aborted run has exited after five update_stage calls.
C8_Witness ==
    /\ Exited
    /\ exit.kind = "raised"
    /\ Len(transitions) = 5
    /\ transitions[5].stage.name = "failed_completed"

\* The on_stage_change calls made by the u-th update_stage call.
NotesOf(u) == SelectSeq(notified, LAMBDA x : x.update = u)

\* C10: without an observer nothing is notified; with one, the calls of the
\* u-th update_stage are one per ancestor of its node along parent links,
\* root first, each with the stage's name, data and error and no message,
\* and then one for the node itself with the stage as it was set.
C10_AncestorsThenSelf ==
    /\ ~observer => notified = <<>>
    /\ \A i \in 1..Len(notified) : \A j \in 1..Len(notified) :
          i < j => notified[i].update <= notified[j].update
    /\ observer =>
          \A u \in 1..Len(transitions) :
              LET notes == NotesOf(u)
                  last == Len(notes)
                  stg == transitions[u].stage
              IN /\ last >= 1
                 /\ notes[last].task = transitions[u].task
                 /\ notes[last].stage = stg
                 /\ parent[notes[1].task] = NoParent
                 /\ \A k \in 1..(last - 1) :
                       /\ notes[k].task = parent[notes[k + 1].task]
                       /\ notes[k].stage.name = stg.name
                       /\ notes[k].stage.data = stg.data
                       /\ notes[k].stage.error = stg.error
                       /\ notes[k].stage.message = NoMessage

\* C10 witness: node 4, whose parent 2 is a child of the root, was marked
\* failed under an observer: three calls, for 1, 2 and 4.
C10_Witness ==
    /\ observer
    /\ parent[4] = 2 /\ parent[2] = 1
    /\ Len(transitions) >= 2
    /\ transitions[Len(transitions)].task = 4
    /\ transitions[Len(transitions)].stage.name = "failed"
    /\ Len(NotesOf(Len(transitions))) = 3

\* The context C9 promises to node t: its own when it is not None, else that
\* of the nearest ancestor along parent links that is not None, else None.
RECURSIVE NearestSetContext(_)
NearestSetContext(t) ==
    IF context[t] # NoContext THEN context[t]
    ELSE IF parent[t] # NoParent THEN NearestSetContext(parent[t])
    ELSE NoContext

\* C9 as stated: every executable is passed its node's own context whenever
\* that is not None, else the nearest ancestor's context that is not None,
\* else None.
C9_NearestSetContext ==
    \A i \in 1..Len(calls) :
        calls[i].context = NearestSetContext(calls[i].task)

\* C11: get_ancestors of a node is empty when the node has no parent;
\* otherwise it ends with the node's parent, each entry is the parent of the
\* next one, its first entry has no parent, and the node is not in it.
C11_AncestorsRootFirst ==
    \A n \in Nodes :
        LET a == get_ancestors(n)
        IN /\ parent[n] = NoParent => a = <<>>
           /\ parent[n] # NoParent =>
                 /\ Len(a) >= 1
                 /\ a[Len(a)] = parent[n]
                 /\ parent[a[1]] = NoParent
                 /\ \A i \in 1..(Len(a) - 1) : a[i] = parent[a[i + 1]]
           /\ n \notin SeqToSet(a)

\* C11 witness: under an observer update_stage has enumerated the ancestors
\* of node 4, which are the root 1 and then its parent 2.
C11_Witness ==
    /\ observer
    /\ Len(transitions) >= 1
    /\ transitions[Len(transitions)].task = 4
    /\ get_ancestors(4) = <<1, 2>>
    /\ get_ancestors(1) = <<>>

\* The nodes whose children list contains c.
HoldersOf(c) == {p \in Nodes : c \in SeqToSet(children[p])}

\* C12 as stated: in a constructed tree exactly one node has no parent and
\* every other node's parent is the node whose children list contains it.
C12_ConstructedTreeHasParents ==
    /\ Cardinality({n \in Nodes : parent[n] = NoParent}) = 1
    /\ \A n \in Nodes : parent[n] # NoParent => HoldersOf(n) = {parent[n]}
    /\ \A n \in Nodes : HoldersOf(n) # {} => parent[n] \in HoldersOf(n)

\* Every node reachable from t through children lists, t excluded, has the
\* node holding it as its parent under the links par.
OrganizedBelow(t, par) ==
    \A p \in Reach(t) : \A i \in 1..Len(children[p]) : par[children[p][i]] = p

\* C13: a call of organize_hierarchy on t leaves every node below t with the
\* node holding it as parent, whatever its parent was, changes no other
\* parent and no children list, and a second call on t changes nothing.
C13_OrganizeOverwritesAndIsIdempotent ==
    [][\A t \in Nodes :
          OrganizeHierarchy(t) =>
              /\ OrganizedBelow(t, parent')
              /\ \A n \in Nodes : n \notin (Reach(t) \ {t}) => parent'[n] = parent[n]
              /\ children' = children
              /\ organize_hierarchy(t, parent') = parent']_vars

\* C13 witness: in root [2 [4], 3], organize_hierarchy on node 2 has given
\* node 4 its parent 2, while nodes 2 and 3 keep the parents 3 and 4 they
\* were constructed with.
C13_Witness ==
    /\ children[1] = <<2, 3>> /\ children[2] = <<4>>
    /\ parent[4] = 2
    /\ parent[2] = 3
    /\ parent[3] = 4

-----------------------------------------------------------------------------
(* The decorator.                                                          *)

\* The nodes of the Tasks the dependency factories returned.
FactoryNodes ==
    UNION {Below(children, dependencies[i]) : i \in 1..Len(dependencies)}

\* C14: a call of the decorated function with a title, a context and one or
\* more dependency factories yields a root without executable carrying that
\* title and context; its children are the factories' Tasks in factory
\* order followed by one new childless Task that carries the executable and
\* the same title; each of these children has the root as its parent,
\* whatever parent the factory gave it.
C14_BuilderTree ==
    [][\A ttl \in Titles, ctx \in ContextsOf(root_task) :
          Decorate(ttl, ctx) =>
              LET kids == children'[root_task]
                  k    == Len(dependencies)
              IN  /\ ~executable'[root_task]
                  /\ title'[root_task] = ttl
                  /\ context'[root_task] = ctx
                  /\ Len(kids) = k + 1
                  /\ \A i \in 1..k : kids[i] = dependencies[i]
                  /\ kids[k + 1] \notin FactoryNodes \cup {root_task}
                  /\ executable'[kids[k + 1]]
                  /\ title'[kids[k + 1]] = ttl
                  /\ children'[kids[k + 1]] = <<>>
                  /\ \A i \in 1..(k + 1) : parent'[kids[i]] = root_task]_vars

\* A built tree whose factory order differs from the numbering.
C14_Witness ==
    /\ pc = "built"
    /\ dependencies = <<3, 2>>
    /\ children[root_task] = <<3, 2, 4>>
    /\ \A c \in {2, 3, 4} : parent[c] = root_task
    /\ executable[4] /\ ~executable[root_task]
    /\ title[4] = title[root_task]

\* The position of a node's dependency in the factory list; the new Task
\* comes after all of them.
Rank(n) ==
    IF n = Primary THEN Len(dependencies) + 1
    ELSE CHOOSE i \in 1..Len(dependencies) : n \in Below(children, dependencies[i])

\* C15: in a run of a tree the decorator returned, the invocations follow
\* the factory order of the dependencies, the Task of the decorated function
\* is invoked after every dependency invocation, and when nothing raises it
\* is the last invocation and every executable of the dependencies has run.
C15_DependenciesFirstPrimaryLast ==
    pc # "deps" =>
        /\ \A i, j \in 1..Len(calls) :
              i < j => /\ Rank(calls[i].task) <= Rank(calls[j].task)
                       /\ calls[i].task # Primary
        /\ (Exited /\ ~Raised) =>
              /\ calls # <<>>
              /\ calls[Len(calls)].task = Primary
              /\ \A n \in FactoryNodes : executable[n] => CallsOf(n) # {}

\* Both dependencies ran, second factory's Task first in the numbering, then
\* the decorated function.
C15_Witness ==
    /\ Exited /\ ~Raised
    /\ dependencies = <<3, 2>>
    /\ Len(calls) = 3
    /\ calls[1].task = 3 /\ calls[2].task = 2 /\ calls[3].task = 4

-----------------------------------------------------------------------------
(* to_dict.                                                                *)

\* The (id, stage name) pairs listed anywhere in a dict.
RECURSIVE Entries(_)
Entries(d) ==
    {[id |-> d.id, name |-> d.stage.name]}
        \cup UNION {Entries(d.children[i]) : i \in 1..Len(d.children)}

RECURSIVE DictMatches(_, _, _)
DictMatches(d, n, stages) ==
    /\ d.id = n
    /\ d.title = title[n]
    /\ IF stages[n] = NoStage
       THEN d.stage = NoneStage
       ELSE d.stage.name = stages[n].name /\ d.stage.message = stages[n].message
    /\ Len(d.children) = Len(children[n])
    /\ \A i \in 1..Len(children[n]) : DictMatches(d.children[i], children[n][i], stages)

-----------------------------------------------------------------------------
(* Which nodes hold which stages.                                          *)

\* C18: during and after a run started on a node without parent, every node
\* other than that one holds None, running, success or failed, and every
\* completion stage ever written or reported is on the node run_sync was
\* called on.
C18_CompletionOnlyOnRunRoot ==
    (pc # "built" /\ parent[self] = NoParent) =>
        /\ \A n \in Nodes \ {self} :
              stage[n].name \in {None, "running", "success", "failed"}
        /\ \A i \in 1..Len(transitions) :
              IsCompleted(transitions[i].stage) => transitions[i].task = self
        /\ \A i \in 1..Len(notified) :
              IsCompleted(notified[i].stage) => notified[i].task = self

\* An observed run from the root that failed two levels down: the node in
\* between, which had succeeded, holds the copy of the failure, the root the
\* completion.
C18_Witness ==
    /\ Exited /\ observer
    /\ self = root_task /\ parent[3] = 2
    /\ stage[self].name = "failed_completed"
    /\ stage[3].name = "failed"
    /\ stage[2].name = "failed"
    /\ \E i \in 1..Len(calls) : calls[i].task = 2 /\ calls[i].outcome = "return"

-----------------------------------------------------------------------------
(* Termination.                                                            *)

\* run_sync has returned or raised; what it invoked is the collected list
\* in order, whole or up to the first failure, nothing was invoked after a
\* raise, a normal return implies the whole list ran without a raise, and
\* the node run_sync was called on holds a completion stage.
Terminated ==
    /\ pc = "done"
    /\ exit.kind \in {"returned", "raised"}
    /\ IsCompleted(stage[self])
    /\ Len(calls) <= Len(tasks)
    /\ \A i \in 1..Len(calls) : calls[i].task = tasks[i]
    /\ \A i \in 1..(Len(calls) - 1) : calls[i].outcome = "return"
    /\ exit.kind = "returned" => (Len(calls) = Len(tasks) /\ ~Raised)
    /\ Len(calls) < Len(tasks) => exit.kind = "raised"

\* C19: when every executable and every observer call returns or raises,
\* a run_sync call that has started eventually returns or raises, having
\* invoked the whole collected list or stopped at the first failure, with
\* a completion stage on the node it was called on.
C19_RunTerminates == (pc = "loop") ~> Terminated

\* A run that ended because the observer raised after both executables
\* had returned.
C19_Witness ==
    /\ Terminated
    /\ observer /\ ~Raised
    /\ exit = [kind |-> "raised", value |-> "oops"]
    /\ Len(calls) = 2 /\ Len(tasks) = 2

-----------------------------------------------------------------------------
(* A node's own transitions.                                               *)

\* The stage names of the update_stage calls made on n itself, in order.
OwnNames(n) ==
    LET own == SelectSeq(transitions, LAMBDA t : t.task = n)
    IN  [i \in 1..Len(own) |-> own[i].stage.name]

\* The stage name that follows the i-th invocation.
OutcomeName(i) == IF calls[i].outcome = "return" THEN "success" ELSE "failed"

\* The name of the completion stage of a run that has left the loop.
CompletionName == IF Raised THEN "failed_completed" ELSE "success_completed"

\* Updates and invocations alternate: the update before the i-th invocation
\* sets its node to running, the one after it sets the same node to success
\* or failed according to the outcome, and the next running update comes
\* only after that.
Interleaved ==
    /\ \A i \in 1..Len(calls) :
          /\ 2 * i - 1 <= Len(transitions)
          /\ transitions[2 * i - 1].task = calls[i].task
          /\ transitions[2 * i - 1].stage.name = "running"
          /\ 2 * i <= Len(transitions) =>
                /\ transitions[2 * i].task = calls[i].task
                /\ transitions[2 * i].stage.name = OutcomeName(i)
    /\ pc = "invoke" =>
          /\ Len(transitions) = 2 * Len(calls) + 1
          /\ transitions[Len(transitions)].task = Current
          /\ transitions[Len(transitions)].stage.name = "running"
    /\ pc \in {"returned", "except"} => Len(transitions) = 2 * Len(calls) - 1
    /\ pc \in {"loop", "finally"} => Len(transitions) = 2 * Len(calls)
    /\ pc \in {"exiting", "done"} => Len(transitions) = 2 * Len(calls) + 1

\* C20 as stated: running before the invocation, then success or failed
\* according to the outcome before the next running update, and these two
\* are all the transitions of an invoked node in the run.
C20_OwnTransitionsAreTwo ==
    /\ Interleaved
    /\ Exited =>
          \A i \in 1..Len(calls) :
              OwnNames(calls[i].task) = <<"running", OutcomeName(i)>>

\* C20 amended: as stated, except that the node run_sync was called on, when
\* it is itself invoked, has its completion as a third transition.
C20_OwnTransitions ==
    /\ Interleaved
    /\ Exited =>
          \A i \in 1..Len(calls) :
              OwnNames(calls[i].task) =
                  IF calls[i].task = self
                  THEN <<"running", OutcomeName(i), CompletionName>>
                  ELSE <<"running", OutcomeName(i)>>

\* An observed run whose own node was invoked first and succeeded, and whose
\* third invocation raised.
C20_Witness ==
    /\ Exited /\ observer
    /\ Len(calls) = 3
    /\ calls[1].task = self
    /\ calls[3].outcome = "raise"
    /\ OwnNames(self) = <<"running", "success", "failed_completed">>
    /\ OwnNames(calls[3].task) = <<"running", "failed">>

-----------------------------------------------------------------------------
(* The exit of run_sync and the stage of its node.                         *)

\* C21 as stated: when run_sync has left by raising, whatever raised, the
\* node it was called on is in failed_completed; when it has returned, that
\* node is in success_completed.
C21_ExitStageMatchesOutcome ==
    Exited =>
        /\ exit.kind = "raised" => stage[self].name = "failed_completed"
        /\ exit.kind = "returned" => stage[self].name = "success_completed"

-----------------------------------------------------------------------------
(* Runs with and without observer.                                         *)

\* The stages the first i update_stage calls of the run leave when no
\* observer is supplied: each call performs line 191 alone.
RECURSIVE WithoutObserver(_)
WithoutObserver(i) ==
    IF i = 0 THEN [n \in Nodes |-> NoStage]
    ELSE [WithoutObserver(i - 1) EXCEPT
              ![transitions[i].task] = transitions[i].stage]

\* C22 as stated: when run_sync exits, every node holds the stage it would
\* hold had the same run been made without observer, and the value
\* returned is the same.
C22_ObserverChangesNoStage ==
    Exited =>
        /\ stage = WithoutObserver(Len(transitions))
        /\ exit.kind = "returned" => exit.value = FinalResult

-----------------------------------------------------------------------------
(* Stages that stay.                                                       *)

\* C23 as stated: a node whose executable has returned and whose stage has
\* been set to success holds success from then on; only the node run_sync
\* was called on may hold a completion stage instead.
C23_SuccessIsKept ==
    \A i \in 1..Len(calls) :
        (calls[i].outcome = "return" /\ 2 * i <= Len(transitions)) =>
            \/ stage[calls[i].task].name = "success"
            \/ calls[i].task = self /\ IsCompleted(stage[self])

\* The nodes that were invoked, and the nodes above them in the tree.
Invoked == {calls[i].task : i \in 1..Len(calls)}
Above(S) == {m \in Nodes : \E n \in S : n # m /\ n \in Reach(m)}

\* C24: once an executable has raised, every executable-bearing node that
\* comes later in the collected list, and every node that was neither
\* invoked nor is above an invoked node in the tree, holds no stage, up to
\* and after the exit of run_sync.
C24_AbortLeavesTheRestUntouched ==
    Raised =>
        LET k == CHOOSE j \in 1..Len(tasks) : tasks[j] = calls[Len(calls)].task
        IN  /\ \A j \in (k + 1)..Len(tasks) : stage[tasks[j]] = NoStage
            /\ \A n \in Nodes \ (Invoked \cup Above(Invoked)) : stage[n] = NoStage

\* An observed run from the root over an organized tree, aborted at the
\* second of three executables: the third, a child of the failed one, and a
\* node without executable aside hold no stage.
C24_Witness ==
    /\ Exited /\ Raised /\ observer
    /\ self = root_task
    /\ Len(calls) = 2 /\ Len(tasks) = 3
    /\ tasks[3] \in SeqToSet(children[tasks[2]])
    /\ parent[tasks[3]] = tasks[2] /\ parent[tasks[2]] = root_task
    /\ \E n \in Nodes \ Reach(tasks[2]) : n # root_task /\ ~executable[n]

\* C25 as stated: a run started on a node that has a parent leaves every
\* node outside the subtree of that node without stage, and reports to the
\* observer only nodes of that subtree.
C25_RunStaysInSubtree ==
    (pc # "built" /\ parent[self] # NoParent) =>
        /\ \A n \in Nodes \ Reach(self) : stage[n] = NoStage
        /\ \A i \in 1..Len(notified) : notified[i].task \in Reach(self)

-----------------------------------------------------------------------------
(* The context of the decorated function.                                  *)

\* The Task that carries the decorated function in the tree the decorator
\* returned.
Wrapped == IF dependencies = <<>> THEN root_task ELSE Primary

\* C26 as stated: when the decorator was given a context other than None,
\* the decorated function is invoked with that context, in the tree with
\* dependencies and in the single Task without.
C26_WrappedGetsDecoratorContext ==
    (pc # "deps" /\ context[root_task] # NoContext) =>
        \A i \in 1..Len(calls) :
            calls[i].task = Wrapped => calls[i].context = context[root_task]

\* C27: a call of complete leaves status "Failed" exactly when failed_items
\* exceeds the fail threshold -- the one passed, or half of total_items
\* rounded down when none was passed -- and "Completed" otherwise; in the
\* failed case exactly one error, of type "Task Failure", is appended to
\* errors, in the other case errors is unchanged; end_time is set in both.
HalfRoundedDown(n) == CHOOSE h \in 0..n : 2 * h <= n /\ n < 2 * (h + 1)
C27_CompleteSetsStatus ==
    [][\A at \in EndTimes \cup {None}, given \in BOOLEAN, th \in Thresholds :
          complete(at, given, th) =>
              LET threshold == IF given THEN th ELSE HalfRoundedDown(total_items)
              IN  /\ end_time' # None
                  /\ failed_items > threshold =>
                        /\ status' = "Failed"
                        /\ Len(errors') = Len(errors) + 1
                        /\ SubSeq(errors', 1, Len(errors)) = errors
                        /\ errors'[Len(errors')].type = "Task Failure"
                  /\ ~(failed_items > threshold) =>
                        /\ status' = "Completed"
                        /\ errors' = errors]_vars

\* complete() without a threshold has failed a batch of 3 items of which 2
\* failed: the threshold in the message is 1, half of 3 rounded down, which
\* no caller passes.
C27_Witness ==
    /\ status = "Failed"
    /\ end_time = "now"
    /\ total_items = 3
    /\ failed_items = 2
    /\ errors # <<>>
    /\ errors[Len(errors)] =
          [type |-> "Task Failure", message |-> ThresholdMessage(1)]

\* C28: after any sequence of add_successful_item, add_failed_item,
\* add_error, set_total_items, complete and fail calls, processed_items is
\* successful_items plus failed_items and at least failed_items errors are
\* recorded; and no call lowers one of the three counters processed_items,
\* successful_items, failed_items (total_items is not a counter: it is
\* whatever set_total_items was last given).
C28_CountersAddUp ==
    /\ [](/\ processed_items = successful_items + failed_items
          /\ Len(errors) >= failed_items)
    /\ [][/\ processed_items' >= processed_items
          /\ successful_items' >= successful_items
          /\ failed_items' >= failed_items]_vars

\* Items of both kinds were added, an error was recorded besides those of
\* the failed items, the total was set below the number processed, and the
\* batch was failed.
C28_Witness ==
    /\ successful_items >= 1
    /\ failed_items >= 1
    /\ Len(errors) > failed_items
    /\ \E i \in 1..Len(errors) : errors[i].type \in ErrorTypes
    /\ total_items >= 1
    /\ total_items < processed_items
    /\ status = "Failed"

\* C29: a call of run_catching whose function raises an Exception or
\* returns does not raise: it returns a Result that is a failure holding the
\* raised exception, or a success holding the returned value.  Of every
\* Result built, by run_catching or by the constructor, exactly one of
\* is_success and is_failure holds; get_or_throw on it raises the error it
\* holds when it is a failure and returns its value when it is a success;
\* get_or_none on a failure built by run_catching returns None.
C29_RunCatchingCatches ==
    /\ \A i \in 1..Len(results) :
          is_success(results[i].object) # is_failure(results[i].object)
    /\ reply.call = "run_catching" =>
          IF reply.func.kind = "raise" /\ reply.func.value \in Interrupts
          THEN TRUE
          ELSE /\ reply.kind = "returned"
               /\ reply.target = Len(results)
               /\ LET r == results[reply.target].object
                  IN  IF reply.func.kind = "raise"
                      THEN is_failure(r) /\ r._error = reply.func.value
                      ELSE is_success(r) /\ r._value = reply.func.value
    /\ reply.call = "get_or_throw" =>
          LET r == results[reply.target].object
          IN  IF r._error # None
              THEN reply.kind = "raised" /\ reply.value = r._error
              ELSE reply.kind = "returned" /\ reply.value = r._value
    /\ reply.call = "get_or_none" =>
          LET built_by == results[reply.target]
          IN  (built_by.origin = "run_catching" /\ built_by.object._error # None) =>
                  reply.kind = "returned" /\ reply.value = None

\* run_catching was given a function that returns "a" and then one that
\* raises an Exception, and get_or_throw on the second Result raised it.
C29_Witness ==
    /\ Len(results) = 2
    /\ results[1].origin = "run_catching"
    /\ results[1].func = [kind |-> "return", value |-> "a"]
    /\ results[2].origin = "run_catching"
    /\ results[2].func.kind = "raise"
    /\ results[2].func.value \in Errors
    /\ reply.call = "get_or_throw"
    /\ reply.target = 2
    /\ reply.kind = "raised"

====
